---------------------------- MODULE Spec2Model ----------------------------
(***************************************************************************)
(* A model of simpleagent's orchestration engine (src/simpleagent/graph.py) *)
(* and of the session driver that feeds it (src/simpleagent/repl.py).       *)
(*                                                                         *)
(* A model text (what LLM.call_llm returns) is a sequence of lexemes: a    *)
(* brace, a word of prose, or one member `"key": value` of a JSON object.  *)
(* The GraphState of a run is the seven variables task .. done; a node's   *)
(* return value is a patch that overwrites the keys it carries.            *)
(***************************************************************************)
EXTENDS Integers, Sequences, FiniteSets, TLC

VARIABLES
    pc,         \* where the session is: boot, idle, load, plan, route, tools, write, end, raised, initfailed
    task, plan, scratch, evidence, result, step, done,   \* GraphState
    mcp_tools,  \* AgentGraph.mcp_tools: the catalog of the last fetch
    tools,      \* the registry the tools node closes over (name -> handle)
    runs,       \* run() calls started in this session
    fetches,    \* MultiServerMCPClient.get_tools calls made
    exc,        \* the exception that left run(), "" when none
    returned,   \* what the last run() returned to the session driver
    console,    \* the messages the session driver displayed for the last submitted line
    line,       \* the task line handed to run()
    hops,       \* node executions of the current run
    toolsEntered, \* executions of the tools node in the current run
    writes,     \* executions of the write node in the current run
    llmCalls,   \* model completions issued in the current run
    forced,     \* the router's step limit fired in the current run
    outcome,    \* what the last tools-node execution did: "", none, ok, raised, max
    uncoop,     \* every router answer so far chose tools and every tools answer was the dosleep call
    allEmpty,   \* every model completion of the current run returned the empty text
    invoked,    \* what the last tools-node execution did with the tool object: calls made,
                \* times its body ran, the call shapes used, the dict it returned
    conc,       \* overlapping run() calls on one engine: each call's position and locals
    llm,        \* the LLM object: its provider, its backing chat client, its system prompt
    cfg         \* main's configuration: the file given, the provider read from it, what
                \* main logged about loading it and the code main returned (-1: none)

vars == <<pc, task, plan, scratch, evidence, result, step, done, mcp_tools, tools,
          runs, fetches, exc, returned, console, line, hops, toolsEntered, writes,
          llmCalls, forced, outcome, uncoop, allEmpty, invoked, conc, llm, cfg>>

gstate == <<task, plan, scratch, evidence, result, step, done>>
aux == <<hops, toolsEntered, writes, llmCalls, forced, outcome, uncoop, allEmpty,
         invoked>>

---------------------------------------------------------------------------
(* Bounds of the model *)

MaxRuns == 2
MaxDirectCalls == 2
MaxOverlapSteps == 1
MaxCompletions == 3

(* Program constants *)

RouterStepLimit == 8
ToolsStepLimit == 10
ScratchWindow == 5

---------------------------------------------------------------------------
(* Model texts *)

LB == [kind |-> "lbrace", key |-> "", t |-> "", s |-> "{"]
RB == [kind |-> "rbrace", key |-> "", t |-> "", s |-> "}"]
W(s) == [kind |-> "word", key |-> "", t |-> "", s |-> s]
M(k, t, s) == [kind |-> "member", key |-> k, t |-> t, s |-> s]

\* str.find / str.rfind of a brace: a 0-based index, -1 when absent
Find(js, kind) ==
    IF \E i \in 1..Len(js) : js[i].kind = kind
    THEN (CHOOSE i \in 1..Len(js) :
            js[i].kind = kind /\ \A j \in 1..(i-1) : js[j].kind # kind) - 1
    ELSE -1

RFind(js, kind) ==
    IF \E i \in 1..Len(js) : js[i].kind = kind
    THEN (CHOOSE i \in 1..Len(js) :
            js[i].kind = kind /\ \A j \in (i+1)..Len(js) : js[j].kind # kind) - 1
    ELSE -1

\* Python's js[a:b] with 0-based, possibly negative, indices
PySlice(js, a, b) ==
    LET n  == Len(js)
        lo == IF a < 0 THEN (IF a + n < 0 THEN 0 ELSE a + n) ELSE (IF a > n THEN n ELSE a)
        hi == IF b < 0 THEN (IF b + n < 0 THEN 0 ELSE b + n) ELSE (IF b > n THEN n ELSE b)
    IN SubSeq(js, lo + 1, hi)

\* js[js.find("{"): js.rfind("}")+1]
BraceSpan(js) == PySlice(js, Find(js, "lbrace"), RFind(js, "rbrace") + 1)

\* whether json.loads accepts the span: one object, members only between its braces
JsonValid(span) ==
    /\ Len(span) >= 2
    /\ span[1].kind = "lbrace"
    /\ span[Len(span)].kind = "rbrace"
    /\ \A i \in 2..(Len(span) - 1) : span[i].kind = "member"

\* the dict json.loads builds: keys in first-seen order, the last value of a key wins
RECURSIVE DictOf(_)
DictOf(ms) ==
    IF ms = <<>> THEN <<>>
    ELSE LET init == DictOf(SubSeq(ms, 1, Len(ms) - 1))
             m    == ms[Len(ms)]
         IN IF \E i \in 1..Len(init) : init[i].key = m.key
            THEN [i \in 1..Len(init) |-> IF init[i].key = m.key THEN m ELSE init[i]]
            ELSE Append(init, m)

JsonLoads(span) == DictOf(SubSeq(span, 2, Len(span) - 1))

\* json.dumps of a dict
JsonDumps(d) == <<LB>> \o d \o <<RB>>

Null == [t |-> "null", s |-> "null"]
HasKey(d, k) == \E i \in 1..Len(d) : d[i].key = k
\* dict.get(k, default)
Get(d, k, default) ==
    IF HasKey(d, k)
    THEN LET m == d[CHOOSE i \in 1..Len(d) : d[i].key = k] IN [t |-> m.t, s |-> m.s]
    ELSE default

\* Python truthiness of a JSON value
Truthy(v) ==
    CASE v.t = "null" -> FALSE
      [] v.t = "bool" -> v.s = "true"
      [] v.t = "num"  -> v.s # "0"
      [] v.t = "str"  -> v.s # ""
      [] v.t = "list" -> v.s # "[]"
      [] v.t = "obj"  -> v.s # "{}"
      [] OTHER -> TRUE

\* whether len(v) is defined
HasLen(v) == v.t \in {"str", "list", "obj"}

\* str.strip on the names the model texts use and the lines a user types
Strip(s) ==
    CASE s = " dosleep " -> "dosleep"
      [] s = "  " -> ""
      [] s = " /Quit " -> "/Quit"
      [] s = "/help " -> "/help"
      [] OTHER -> s

\* str.lower on the words the model texts use and the lines a user types
Lower(s) ==
    CASE s = "TOOLS" -> "tools"
      [] s = "Toolbox" -> "toolbox"
      [] s = "Write" -> "write"
      [] s = "/EXIT" -> "/exit"
      [] s = "/Quit" -> "/quit"
      [] s = "/HELP" -> "/help"
      [] OTHER -> s

\* "tool" in word, for a lowercased word
HasToolSubstring(s) == s \in {"tool", "tools", "toolbox"}

---------------------------------------------------------------------------
(* Tools and the registry *)

\* a tool object: its `name` attribute ("" when it has none), how the dispatch
\* sees it (async: has ainvoke; sync: has invoke only; callable; other), who
\* serves it, and its __name__ ("" when it has none)
Handle(name, kind, origin) ==
    [name |-> name, kind |-> kind, origin |-> origin, fname |-> ""]

\* a plain function: no `name` attribute, a __name__
Fn(fname, origin) ==
    [name |-> "", kind |-> "callable", origin |-> origin, fname |-> fname]

\* the local built-in, a LangChain tool: awaited through ainvoke
dosleep == Handle("dosleep", "async", "local")

\* what MultiServerMCPClient.get_tools can return: lists of LangChain tools
Catalogs == { <<>>, << Handle("search", "async", "mcp") >> }

PositionalName(i) ==
    CASE i = 0 -> "tool_0" [] i = 1 -> "tool_1" [] i = 2 -> "tool_2" [] OTHER -> "tool_n"

\* getattr(t, "name", None) or getattr(t, "__name__", None) or f"tool_{i}"
RegistryName(t, i) ==
    IF t.name # "" THEN t.name
    ELSE IF t.fname # "" THEN t.fname
    ELSE PositionalName(i)

\* _normalize_tools keeping the first entry of a name (`if name not in out`)
_normalize_tools_FirstWins(list) ==
    LET names == { RegistryName(list[i], i - 1) : i \in 1..Len(list) }
        first(n) == CHOOSE i \in 1..Len(list) :
                       /\ RegistryName(list[i], i - 1) = n
                       /\ \A j \in 1..(i-1) : RegistryName(list[j], j - 1) # n
    IN [n \in names |-> list[first(n)]]

\* _normalize_tools on a list: a later entry overwrites an earlier one of the same name
_normalize_tools(list) ==
    LET names == { RegistryName(list[i], i - 1) : i \in 1..Len(list) }
        last(n) == CHOOSE i \in 1..Len(list) :
                      /\ RegistryName(list[i], i - 1) = n
                      /\ \A j \in (i+1)..Len(list) : RegistryName(list[j], j - 1) # n
    IN [n \in names |-> list[last(n)]]

\* init() putting dosleep in front of the catalog instead of behind it
BuildRegistry_DosleepFirst(catalog) == _normalize_tools(<< dosleep >> \o catalog)

\* all_tools = self.mcp_tools.copy(); all_tools.append(dosleep); _normalize_tools(all_tools)
BuildRegistry(catalog) == _normalize_tools(Append(catalog, dosleep))

EmptyArgs == [t |-> "obj", s |-> "{}"]
SleepArgs == [t |-> "obj", s |-> "{seconds:1}"]

\* how an invocation of a handle can end: dosleep needs an integer `seconds`,
\* a remote tool succeeds or fails as its server decides
NoPatch == [k \in {} |-> <<>>]

\* one way an invocation can end: whether a value came back, the value or the
\* exception text, how many times the tool object was called, and the dict a
\* local callable returned
Ends(ok, res, calls) ==
    [ok |-> ok, res |-> res, calls |-> calls, bodies |-> IF calls = 0 THEN 0 ELSE 1,
     isdict |-> FALSE, patch |-> NoPatch]
EndsDict(p, calls) ==
    [ok |-> TRUE, res |-> "dict result", calls |-> calls, bodies |-> 1,
     isdict |-> TRUE, patch |-> p]

\* a callable whose body raised TypeError and then ran again under **args
EndsAfterRerun(ok, res) == [Ends(ok, res, 2) EXCEPT !.bodies = 2]

\* the tools node returning before any tool object is called
NoInvocation == Ends(TRUE, "", 0)

\* dicts a local callable can return
DictResults == {
    [evidence |-> << "fact" >>],
    [scratch |-> << [tag |-> "NOTE", tool |-> "", n |-> 0, args |-> "",
                     res |-> "", txt |-> << W("rewritten") >>] >>],
    [scratch |-> <<>>, done |-> TRUE, result |-> << W("final") >>] }

\* Case C: tool_obj(args, state), and tool_obj(**args) after a TypeError,
\* whether the TypeError came from the call not fitting the signature (the
\* body did not run) or from inside the body
CallableBehaviours ==
    { Ends(TRUE, "fn result", 1), Ends(FALSE, "ValueError", 1),
      Ends(TRUE, "fn result", 2), Ends(FALSE, "TypeError", 2),
      EndsAfterRerun(TRUE, "fn result"), EndsAfterRerun(FALSE, "TypeError") }
    \cup { EndsDict(p, 1) : p \in DictResults }

\* a LangChain tool whose server answers with dicts
StructuredBehaviours ==
    { Ends(TRUE, "remote result", 1) } \cup { EndsDict(p, 1) : p \in DictResults }

\* what the dispatch finds on a tool object (hasattr ainvoke, hasattr invoke,
\* callable): a LangChain tool has all three
Caps(h) ==
    CASE h.kind = "async" -> {"ainvoke", "invoke", "call"}
      [] h.kind = "sync" -> {"invoke", "call"}
      [] h.kind = "callable" -> {"call"}
      [] OTHER -> {}

\* the dispatch trying invoke before ainvoke
Dispatch_SyncFirst(h) ==
    IF "invoke" \in Caps(h) THEN "invoke"
    ELSE IF "ainvoke" \in Caps(h) THEN "ainvoke"
    ELSE IF "call" \in Caps(h) THEN "call"
    ELSE "invalid"

\* lines 150, 156, 161, 184: the branch of the dispatch a tool object takes
Dispatch(h) ==
    IF "ainvoke" \in Caps(h) THEN "ainvoke"
    ELSE IF "invoke" \in Caps(h) THEN "invoke"
    ELSE IF "call" \in Caps(h) THEN "call"
    ELSE "invalid"

NotInvoked == [calls |-> 0, bodies |-> 0, via |-> <<>>, isdict |-> FALSE, patch |-> NoPatch]

\* what the dispatch did with tool object h when its invocation ended as b
Invocation(h, b) ==
    CASE Dispatch(h) = "ainvoke" ->
            [calls |-> 1, bodies |-> 1, via |-> << "ainvoke(args)" >>,
             isdict |-> b.isdict, patch |-> b.patch]
      [] Dispatch(h) = "invoke" ->
            [calls |-> 1, bodies |-> 1, via |-> << "invoke(args)" >>,
             isdict |-> b.isdict, patch |-> b.patch]
      [] Dispatch(h) = "call" ->
            [calls |-> b.calls, bodies |-> b.bodies,
             via |-> IF b.calls = 2 THEN << "(args, state)", "(**args)" >>
                     ELSE << "(args, state)" >>,
             isdict |-> b.isdict, patch |-> b.patch]
      [] OTHER -> NotInvoked

Behaviours(h, args) ==
    CASE h.kind = "callable" -> CallableBehaviours
      [] h.kind = "other" -> { NoInvocation }
      [] h.origin = "structured" -> StructuredBehaviours
      [] h.origin = "local" ->
            (IF args = SleepArgs THEN { Ends(TRUE, "Slept for 1 seconds", 1) }
                                 ELSE { Ends(FALSE, "validation error", 1) })
      [] OTHER -> { Ends(TRUE, "remote result", 1), Ends(FALSE, "remote failure", 1) }

---------------------------------------------------------------------------
(* GraphState, patches and scratch entries *)

S == [task |-> task, plan |-> plan, scratch |-> scratch, evidence |-> evidence,
      result |-> result, step |-> step, done |-> done]

\* run() starting its count at one
FreshState_StepOne(t) == [task |-> t, plan |-> <<>>, scratch |-> <<>>, evidence |-> <<>>,
                          result |-> <<>>, step |-> 1, done |-> FALSE]

\* run() building its state on top of the transcript of the run before
FreshState_KeepsScratch(t) ==
    [task |-> t, plan |-> <<>>, scratch |-> scratch, evidence |-> <<>>,
     result |-> <<>>, step |-> 0, done |-> FALSE]

\* the fresh state run() builds
FreshState(t) == [task |-> t, plan |-> <<>>, scratch |-> <<>>, evidence |-> <<>>,
                  result |-> <<>>, step |-> 0, done |-> FALSE]

\* LangGraph's update of the state channels by a node's return value
Merge(s, patch) == [k \in DOMAIN s |-> IF k \in DOMAIN patch THEN patch[k] ELSE s[k]]

Entry(tag, tool, n, args, res, txt) ==
    [tag |-> tag, tool |-> tool, n |-> n, args |-> args, res |-> res, txt |-> txt]

PlanEntry(plan_str) == Entry("PLAN", "", 0, "", "", plan_str)
DraftEntry(draft) == Entry("DRAFT", "", 0, "", "", draft)
MaxStepsEntry == Entry("MAX_STEPS", "", 0, "", "Forcing completion", <<>>)
StepEntry(n, name) == Entry("STEP", name, n, "", "Considering tool", <<>>)
NoneEntry(name) == Entry("TOOL", name, 0, "", "none or unavailable. Moving to write.", <<>>)
CallEntry(name, args, res) == Entry("TOOL-CALL", name, 0, args.s, res, <<>>)
ErrorEntry(name, args, e) == Entry("TOOL-ERROR", name, 0, args.s, e, <<>>)
InvalidEntry(name) == Entry("TOOL-ERROR", name, 0, "", "invalid tool type", <<>>)
DictCallEntry(name, args) == Entry("TOOL-CALL", name, 0, args.s, "dict result", <<>>)

\* the prompts showing the first entries of scratch instead of the last
Recent_Oldest(sc) == PySlice(sc, 0, ScratchWindow)

\* (state.get('scratch') or [])[-5:]
Recent(sc) == PySlice(sc, 0 - ScratchWindow, Len(sc))

---------------------------------------------------------------------------
(* The nodes *)

DefaultPlan == << M("subtasks", "list", "[write,tools]"),
                  M("success_criteria", "list", "[clear answer]") >>
EmptyList == [t |-> "list", s |-> "[]"]

\* the except branch leaving an empty plan
ParsePlan_NoFallback(js) ==
    IF JsonValid(BraceSpan(js)) THEN JsonLoads(BraceSpan(js)) ELSE <<>>

\* lines 72-75: the parsed plan, or the default when json.loads raises
ParsePlan(js) ==
    IF JsonValid(BraceSpan(js)) THEN JsonLoads(BraceSpan(js)) ELSE DefaultPlan

\* line 78: len(plan.get('subtasks', [])) in the f-string raises TypeError
PlanRaises(js) == ~HasLen(Get(ParsePlan(js), "subtasks", EmptyList))

_node_plan(s, js) ==
    LET plan_str == JsonDumps(ParsePlan(js))
    IN [plan |-> plan_str, scratch |-> Append(s.scratch, PlanEntry(plan_str))]

\* "tool" in choice, without lowercasing the answer
ContainsTool_CaseSensitive(txt) ==
    \E i \in 1..Len(txt) :
        \/ HasToolSubstring(txt[i].s)
        \/ HasToolSubstring(txt[i].key)

\* "tool" in choice, choice the lowercased answer
ContainsTool(txt) ==
    \E i \in 1..Len(txt) :
        \/ HasToolSubstring(Lower(txt[i].s))
        \/ HasToolSubstring(Lower(txt[i].key))

_node_route_decider(s, txt) == IF ContainsTool(txt) THEN "tools" ELSE "write"

\* the route node counting its own visits in step
_node_route_CountsVisit(s) == [step |-> s.step + 1]

\* line 198: g.add_node("route", lambda s: s)
_node_route(s) == s

\* the router applying its step limit one step late
RouteBranch_LimitNine(s) ==
    IF s.done \/ Len(s.result) > 0 THEN "terminal"
    ELSE IF s.step >= RouterStepLimit + 1 THEN "limit"
    ELSE "model"

\* the router never applying its step limit
RouteBranch_NoLimit(s) ==
    IF s.done \/ Len(s.result) > 0 THEN "terminal" ELSE "model"

\* the termination check looking at result alone
RouteBranch_IgnoresDone(s) ==
    IF Len(s.result) > 0 THEN "terminal"
    ELSE IF s.step >= RouterStepLimit THEN "limit"
    ELSE "model"

\* the termination check looking at done alone
RouteBranch_IgnoresResult(s) ==
    IF s.done THEN "terminal"
    ELSE IF s.step >= RouterStepLimit THEN "limit"
    ELSE "model"

\* the step limit compared one too low
RouteBranch_LimitOffByOne(s) ==
    IF s.done \/ Len(s.result) > 0 THEN "terminal"
    ELSE IF s.step >= RouterStepLimit - 1 THEN "limit"
    ELSE "model"

\* which of router's three branches is taken (lines 215, 220, 225)
RouteBranch(s) ==
    IF s.done \/ Len(s.result) > 0 THEN "terminal"
    ELSE IF s.step >= RouterStepLimit THEN "limit"
    ELSE "model"

\* whether router reaches its model call (line 225)
RouterConsults(s) == RouteBranch(s) = "model"

\* the step limit ending the run instead of forcing write
router_LimitEnds(s, txt) ==
    CASE RouteBranch(s) = "terminal" -> "end"
      [] RouteBranch(s) = "limit" -> "end"
      [] OTHER -> _node_route_decider(s, txt)

router(s, txt) ==
    CASE RouteBranch(s) = "terminal" -> "end"
      [] RouteBranch(s) = "limit" -> "write"
      [] OTHER -> _node_route_decider(s, txt)

\* the write node storing its draft without recording it
_node_write_NoEntry(s, draft) == [result |-> draft]

_node_write(s, draft) ==
    [result |-> draft, scratch |-> Append(s.scratch, DraftEntry(draft))]

NoneSpec == << M("tool", "str", "none"), M("args", "obj", "{}") >>

\* lines 130-134
ParseSpec(js) ==
    IF JsonValid(BraceSpan(js)) THEN JsonLoads(BraceSpan(js)) ELSE NoneSpec

\* str(spec.get("tool") or "none").strip()
ToolName(spec) ==
    LET v == Get(spec, "tool", Null) IN IF Truthy(v) THEN Strip(v.s) ELSE "none"

\* spec.get("args") or {}
ToolArgs(spec) ==
    LET v == Get(spec, "args", Null) IN IF Truthy(v) THEN v ELSE EmptyArgs

\* the tools node looking the name up without its test for "none"
Resolves_ByRegistryAlone(name, reg) == name \in DOMAIN reg

\* line 140
Resolves(name, reg) == ~(name = "none" \/ name \notin DOMAIN reg)

\* lines 176-180: out = dict(res); out["scratch"] = (res.get("scratch") or
\* scratch) + [...]; out["step"] = step
DictPatch(sc, name, args, p, n) ==
    LET base == IF "scratch" \in DOMAIN p /\ Len(p["scratch"]) > 0
                THEN p["scratch"] ELSE sc
    IN [k \in DOMAIN p \cup {"scratch", "step"} |->
          IF k = "scratch" THEN Append(base, DictCallEntry(name, args))
          ELSE IF k = "step" THEN n
          ELSE p[k]]

\* f"... -> {res}": the result as the entry shows it
Shows(b) == IF b.isdict THEN "{...}" ELSE b.res

\* the except branch leaving "step" out of its patch
InvokePatch_ErrorDropsStep(sc, name, args, h, b, n) ==
    IF Dispatch(h) = "invalid"
    THEN [scratch |-> Append(sc, InvalidEntry(name)), step |-> n]
    ELSE IF ~b.ok
    THEN [scratch |-> Append(sc, ErrorEntry(name, args, b.res))]
    ELSE IF Dispatch(h) = "call" /\ b.isdict
    THEN DictPatch(sc, name, args, b.patch, n)
    ELSE [scratch |-> Append(sc, CallEntry(name, args, Shows(b))), step |-> n]

\* the dict test of Case C applied to the results of ainvoke and invoke too
InvokePatch_MergesAnyDict(sc, name, args, h, b, n) ==
    IF Dispatch(h) = "invalid"
    THEN [scratch |-> Append(sc, InvalidEntry(name)), step |-> n]
    ELSE IF ~b.ok
    THEN [scratch |-> Append(sc, ErrorEntry(name, args, b.res)), step |-> n]
    ELSE IF b.isdict
    THEN DictPatch(sc, name, args, b.patch, n)
    ELSE [scratch |-> Append(sc, CallEntry(name, args, Shows(b))), step |-> n]

\* lines 145-189: the patch after invoking a resolved tool that behaves as b
InvokePatch(sc, name, args, h, b, n) ==
    IF Dispatch(h) = "invalid"
    THEN [scratch |-> Append(sc, InvalidEntry(name)), step |-> n]
    ELSE IF ~b.ok
    THEN [scratch |-> Append(sc, ErrorEntry(name, args, b.res)), step |-> n]
    ELSE IF Dispatch(h) = "call" /\ b.isdict
    THEN DictPatch(sc, name, args, b.patch, n)
    ELSE [scratch |-> Append(sc, CallEntry(name, args, Shows(b))), step |-> n]

\* lines 141-143
NonePatch(sc, name, n) ==
    [scratch |-> Append(sc, NoneEntry(name)), done |-> TRUE, step |-> n]

\* lines 118-121
MaxStepsPatch(s, n) ==
    [scratch |-> Append(s.scratch, MaxStepsEntry), done |-> TRUE, step |-> n]

\* whether the tools node gets past its own step check to the model call
ToolsConsults(s) == ~(s.step + 1 > ToolsStepLimit)

\* the tools node leaving out its "STEP n" note
_node_tools_NoStepNote(s, reg, js, b) ==
    LET n == s.step + 1
        spec == ParseSpec(js)
        name == ToolName(spec)
        args == ToolArgs(spec)
    IN IF n > ToolsStepLimit THEN MaxStepsPatch(s, n)
       ELSE IF ~Resolves(name, reg) THEN NonePatch(s.scratch, name, n)
       ELSE InvokePatch(s.scratch, name, args, reg[name], b, n)

_node_tools(s, reg, js, b) ==
    LET n == s.step + 1
        spec == ParseSpec(js)
        name == ToolName(spec)
        args == ToolArgs(spec)
        sc == Append(s.scratch, StepEntry(n, name))
    IN IF n > ToolsStepLimit THEN MaxStepsPatch(s, n)
       ELSE IF ~Resolves(name, reg) THEN NonePatch(sc, name, n)
       ELSE InvokePatch(sc, name, args, reg[name], b, n)

\* what the tools node did, for the history variable
OutcomeOf(s, reg, js, b) ==
    IF s.step + 1 > ToolsStepLimit THEN "max"
    ELSE IF ~Resolves(ToolName(ParseSpec(js)), reg) THEN "none"
    ELSE IF Dispatch(reg[ToolName(ParseSpec(js))]) = "invalid" THEN "invalid"
    ELSE IF b.ok THEN "ok" ELSE "raised"

\* what the tools node did with the tool object, for the history variable
InvokedBy(s, reg, js, b) ==
    IF s.step + 1 > ToolsStepLimit \/ ~Resolves(ToolName(ParseSpec(js)), reg)
    THEN NotInvoked
    ELSE Invocation(reg[ToolName(ParseSpec(js))], b)

---------------------------------------------------------------------------
(* What the environment can supply *)

Tasks == {"what is 2+2", "deploy"}

SubtasksList == M("subtasks", "list", "[look up]")

\* answers to the plan prompt
PlanTexts == {
    <<>>,                                                 \* empty
    << W("Sure") >>,                                      \* no braces
    << LB, W("oops"), RB >>,                              \* braces around no JSON
    << RB, W("then"), LB >>,                              \* braces in the wrong order
    << LB, SubtasksList, RB, W("done"), RB >>,            \* a stray brace after the object
    << W("Here"), LB, SubtasksList, RB, W("ok") >>,       \* an object inside prose
    << LB, SubtasksList, M("subtasks", "list", "[look up]"), RB >>,  \* a key given twice
    << LB, M("subtasks", "null", "null"), RB >>,          \* subtasks null
    << LB, M("subtasks", "num", "3"), RB >> }             \* subtasks a number

\* answers to the router prompt
RouteTexts == {
    <<>>,
    << W("write") >>,
    << W("tools") >>,
    << W("TOOLS") >>,
    << W("use"), W("the"), W("Toolbox") >>,
    << W("garbled") >> }

DosleepCall == << LB, M("tool", "str", "dosleep"), M("args", "obj", "{seconds:1}"), RB >>

\* answers to the tools prompt
ToolTexts == {
    DosleepCall,
    << LB, M("tool", "str", " dosleep "), M("args", "obj", "{seconds:1}"), RB >>,
    << W("calling"), LB, M("tool", "str", "search"), M("args", "obj", "{q:x}"), RB >>,
    << LB, M("tool", "str", "none"), M("args", "obj", "{}"), RB >>,
    << LB, M("tool", "null", "null"), RB >>,
    << LB, M("tool", "str", "bogus"), RB >>,
    << W("I"), W("cannot") >>,
    <<>> }

\* answers to the write prompt
WriteTexts == { <<>>, << W("4"), W("[1]") >> }

\* lines 68-70: the plan prompt carries the task only
PlanPrompt(s) ==
    [node |-> "plan", task |-> s.task, notes |-> <<>>, evidence |-> <<>>, step |-> 0]

\* lines 83-86: "Context scratch:" followed by scratch[-5:], and the task
RoutePrompt(s) ==
    [node |-> "route", task |-> s.task, notes |-> Recent(s.scratch), evidence |-> <<>>,
     step |-> 0]

\* lines 123-128: the task, "Recent notes:" followed by scratch[-5:], the
\* tool list and "Step: {step}/10"
ToolsPrompt(s) ==
    [node |-> "tools", task |-> s.task, notes |-> Recent(s.scratch), evidence |-> <<>>,
     step |-> s.step + 1]

\* lines 96-101: the task, the numbered evidence and "Notes:" followed by
\* scratch[-5:]
WritePrompt(s) ==
    [node |-> "write", task |-> s.task, notes |-> Recent(s.scratch),
     evidence |-> s.evidence, step |-> 0]

\* what the model can answer to a prompt
Answers(prompt) ==
    CASE prompt.node = "plan" -> PlanTexts
      [] prompt.node = "route" -> RouteTexts
      [] prompt.node = "tools" -> ToolTexts
      [] OTHER -> WriteTexts

---------------------------------------------------------------------------
(* The session *)

NoRegistry == [n \in {} |-> dosleep]

\* a message on the console: its fixed wording and the text it carries
Shown(msg, text) == [msg |-> msg, text |-> text]

\* repl.py lines 84-87, showing a result that is merely not None
OutcomeMessage_NotNone(res) == Shown("Result: ", res)

\* repl.py lines 84-87: `if res:` picks the message
OutcomeMessage(res) ==
    IF Len(res) > 0 THEN Shown("Result: ", res)
    ELSE Shown("No result returned.", <<>>)

\* no run() call is overlapping another
NoCalls == <<>>

---------------------------------------------------------------------------
(* The LLM object of model.py *)

Providers == {"ollama", "local", "anthropic", "openai"}

\* the assignments to self.llm that LLM.__init__ executes, in order: line 19
\* under the `if`, then line 22, which belongs to no else branch
ClientAssignments(provider) ==
    (IF provider \in {"ollama", "local"} THEN << "ChatOllama" >> ELSE <<>>)
        \o << "ChatAnthropic" >>

\* LLM.__init__: self.llm is what the last assignment left
LLM__init__(provider) ==
    [provider |-> provider,
     client |-> ClientAssignments(provider)[Len(ClientAssignments(provider))],
     system_prompt |-> FALSE]

\* set_system_prompt, called by AgentGraph.__init__
set_system_prompt(l) == [l EXCEPT !.system_prompt = TRUE]

\* no LLM object yet
NoGateway == [provider |-> "", client |-> "", system_prompt |-> FALSE]

\* the LLM the session of Spec runs with
Configured == set_system_prompt(LLM__init__("anthropic"))

\* what a chat client's reply carries as content: a string, a list of
\* chunks, or nothing; " " is white space
Contents == {
    [t |-> "str", v |-> << "4" >>],
    [t |-> "str", v |-> << " ", "4", " " >>],
    [t |-> "str", v |-> << " " >>],
    [t |-> "list", v |-> << "4", "2" >>],
    [t |-> "str", v |-> << "write" >>],
    [t |-> "list", v |-> << " ", "tools" >>],
    [t |-> "none", v |-> <<>>] }

\* str.strip on a sequence of pieces
RECURSIVE StripText(_)
StripText(v) ==
    IF v = <<>> THEN v
    ELSE IF Head(v) = " " THEN StripText(Tail(v))
    ELSE IF v[Len(v)] = " " THEN StripText(SubSeq(v, 1, Len(v) - 1))
    ELSE v

\* call_llm lines 37-41: the content (chunks joined), or "", stripped
ReplyText(content) == StripText(IF content.t = "none" THEN <<>> ELSE content.v)

Temperatures == {"0.2", "0.3"}

\* a configuration file: whether it exists, what json.load makes of it
\* ("invalid", a "list", an "object"), whether the object has a valid
\* "model", its provider, and its one MCP server: the transport given
\* ("absent": no server, "default": no transport key) and which of "command"
\* and "url" the server has
File(exists, json, hasmodel, provider, transport, keys) ==
    [exists |-> exists, json |-> json, hasmodel |-> hasmodel, provider |-> provider,
     transport |-> transport, keys |-> keys]

Transports == {"default", "stdio", "streamable_http", "sse", "websocket"}

ConfigFiles ==
    { File(FALSE, "", FALSE, "", "absent", {}),
      File(TRUE, "invalid", FALSE, "", "absent", {}),
      File(TRUE, "list", FALSE, "", "absent", {}) }
    \cup { File(TRUE, "object", m, p, "absent", {}) : m \in BOOLEAN, p \in Providers }
    \cup { File(TRUE, "object", m, p, t, k) :
             m \in BOOLEAN, p \in Providers, t \in Transports,
             k \in { {}, {"command"}, {"url"} } }

\* config.py lines 43-60: the error validate_server_config raises, "" when none
validate_server_config(f) ==
    LET transport == IF f.transport = "default" THEN "stdio" ELSE f.transport
    IN IF f.transport = "absent" THEN ""
       ELSE IF transport = "stdio"
       THEN (IF "command" \notin f.keys THEN "ValueError" ELSE "")
       ELSE IF transport \in {"streamable_http", "sse"}
       THEN (IF "url" \notin f.keys THEN "ValueError" ELSE "")
       ELSE ""

\* config.py lines 102-119: AppConfig(**config_data), any exception of it
\* raised again as ValueError
load_settings(f) ==
    IF f.json # "object" THEN "ValueError"
    ELSE IF ~f.hasmodel THEN "ValueError"
    ELSE IF validate_server_config(f) # "" THEN "ValueError"
    ELSE ""

\* config.py lines 81-99: the class of the exception load_config raises, ""
\* when it returns a configuration
load_config(f) ==
    IF ~f.exists THEN "FileNotFoundError"
    ELSE IF f.json = "invalid" THEN "JSONDecodeError"
    ELSE load_settings(f)

\* the classes an exception class derives from
Bases(e) ==
    CASE e = "FileNotFoundError" -> {"OSError", "Exception"}
      [] e = "JSONDecodeError" -> {"ValueError", "Exception"}
      [] e = "ConfigError" -> {"ValueError", "Exception"}
      [] e = "ValueError" -> {"Exception"}
      [] OTHER -> {}

\* whether `except handler` catches an exception of class e
Catches(handler, e) == e = handler \/ handler \in Bases(e)

NoFile == File(FALSE, "", FALSE, "", "absent", {})

\* main before it has loaded anything
NoConfig == [file |-> NoFile, provider |-> "", log |-> <<>>, code |-> 0 - 1]

\* main.py lines 113-120: cfg as load_config returned it
Loaded(f) ==
    [file |-> f, provider |-> f.provider,
     log |-> << "Loading configuration", "Configuration loaded successfully. Summary:",
                "Loading model" >>,
     code |-> 0 - 1]

\* the configuration the session of Spec runs with
SessionConfig == Loaded(File(TRUE, "object", TRUE, "anthropic", "absent", {}))

\* main.py lines 109-113: load_config returns
LoadConfig ==
    /\ pc = "main"
    /\ \E f \in ConfigFiles :
          /\ load_config(f) = ""
          /\ cfg' = Loaded(f)
    /\ pc' = "construct"
    /\ UNCHANGED <<conc, llm, gstate, aux, mcp_tools, tools, runs, fetches, exc, returned,
                   console, line>>

\* main.py lines 109-117: load_config raises; `except ConfigError` logs and
\* returns 2, any other exception leaves main
LoadConfigFail ==
    /\ pc = "main"
    /\ \E f \in ConfigFiles :
          /\ load_config(f) # ""
          /\ IF Catches("ConfigError", load_config(f))
             THEN /\ cfg' = [file |-> f, provider |-> "",
                             log |-> << "Loading configuration",
                                        "Failed to load configuration" >>,
                             code |-> 2]
                  /\ pc' = "exit"
                  /\ exc' = ""
             ELSE /\ cfg' = [file |-> f, provider |-> "",
                             log |-> << "Loading configuration" >>, code |-> 0 - 1]
                  /\ pc' = "raised"
                  /\ exc' = load_config(f)
    /\ UNCHANGED <<conc, llm, gstate, aux, mcp_tools, tools, runs, fetches, returned,
                   console, line>>

GatewayInit ==
    /\ pc = "construct"
    /\ task = "" /\ plan = <<>> /\ scratch = <<>> /\ evidence = <<>>
    /\ result = <<>> /\ step = 0 /\ done = FALSE
    /\ mcp_tools = <<>> /\ tools = NoRegistry
    /\ runs = 0 /\ fetches = 0 /\ exc = "" /\ returned = <<>>
    /\ console = <<>>
    /\ line = ""
    /\ hops = 0 /\ toolsEntered = 0 /\ writes = 0 /\ llmCalls = 0
    /\ forced = FALSE /\ outcome = "" /\ uncoop = TRUE /\ allEmpty = TRUE
    /\ invoked = NotInvoked
    /\ conc = NoCalls
    /\ llm = NoGateway
    /\ cfg \in { Loaded(f) : f \in { g \in ConfigFiles : load_config(g) = "" } }

\* main.py line 122: LLM(cfg.model.provider, cfg.model.name, cfg.model.max_tokens)
Construct ==
    /\ pc = "construct"
    /\ llm' = LLM__init__(cfg.provider)
    /\ pc' = "built"
    /\ UNCHANGED <<cfg, conc, gstate, aux, mcp_tools, tools, runs, fetches, exc, returned,
                   console, line>>

\* AgentGraph.__init__ line 64
SetSystemPrompt ==
    /\ pc = "built"
    /\ llm' = set_system_prompt(llm)
    /\ pc' = "serving"
    /\ UNCHANGED <<cfg, conc, gstate, aux, mcp_tools, tools, runs, fetches, exc, returned,
                   console, line>>

\* call_llm: self.llm.with_config({"temperature": t}).invoke(msgs); outcome
\* notes the client that served the call and the temperature it was given
CallLlm ==
    /\ pc = "serving"
    /\ llmCalls < MaxCompletions
    /\ \E c \in Contents : returned' = ReplyText(c)
    /\ \E t \in Temperatures : outcome' = << llm.client, t >>
    /\ llmCalls' = llmCalls + 1
    /\ UNCHANGED <<cfg, conc, llm, pc, gstate, mcp_tools, tools, runs, fetches, exc, console,
                   line, hops, toolsEntered, writes, forced, uncoop, allEmpty, invoked>>

GatewayNext == Construct \/ SetSystemPrompt \/ CallLlm

GatewaySpec == GatewayInit /\ [][GatewayNext]_vars

\* main from its first line: the configuration, then the LLM
StartupInit ==
    /\ pc = "main"
    /\ task = "" /\ plan = <<>> /\ scratch = <<>> /\ evidence = <<>>
    /\ result = <<>> /\ step = 0 /\ done = FALSE
    /\ mcp_tools = <<>> /\ tools = NoRegistry
    /\ runs = 0 /\ fetches = 0 /\ exc = "" /\ returned = <<>>
    /\ console = <<>>
    /\ line = ""
    /\ hops = 0 /\ toolsEntered = 0 /\ writes = 0 /\ llmCalls = 0
    /\ forced = FALSE /\ outcome = "" /\ uncoop = TRUE /\ allEmpty = TRUE
    /\ invoked = NotInvoked
    /\ conc = NoCalls
    /\ llm = NoGateway
    /\ cfg = NoConfig

StartupNext == LoadConfig \/ LoadConfigFail \/ Construct \/ SetSystemPrompt \/ CallLlm

StartupSpec == StartupInit /\ [][StartupNext]_vars

Init ==
    /\ pc = "boot"
    /\ task = "" /\ plan = <<>> /\ scratch = <<>> /\ evidence = <<>>
    /\ result = <<>> /\ step = 0 /\ done = FALSE
    /\ mcp_tools = <<>> /\ tools = NoRegistry
    /\ runs = 0 /\ fetches = 0 /\ exc = "" /\ returned = <<>>
    /\ console = <<>>
    /\ line = ""
    /\ hops = 0 /\ toolsEntered = 0 /\ writes = 0 /\ llmCalls = 0
    /\ forced = FALSE /\ outcome = "" /\ uncoop = TRUE /\ allEmpty = TRUE
    /\ invoked = NotInvoked
    /\ conc = NoCalls
    /\ llm = Configured
    /\ cfg = SessionConfig

\* the node's patch merged into the state channels
Apply(patch) ==
    LET m == Merge(S, patch)
    IN /\ task' = m.task /\ plan' = m.plan /\ scratch' = m.scratch
       /\ evidence' = m.evidence /\ result' = m.result /\ step' = m.step
       /\ done' = m.done

\* REPL.init: AgentGraph.init fetches the catalog and builds a graph
BootOk ==
    /\ pc = "boot"
    /\ \E c \in Catalogs :
          /\ mcp_tools' = c
          /\ tools' = BuildRegistry(c)
    /\ fetches' = fetches + 1
    /\ pc' = "idle"
    /\ UNCHANGED <<cfg, conc, llm, gstate, aux, runs, exc, returned, console, line>>

\* REPL.init catching the failure and main going on to start the UI
BootFail_Swallowed ==
    /\ pc = "boot"
    /\ fetches' = fetches + 1
    /\ pc' = "idle"
    /\ exc' = "FetchError"
    /\ UNCHANGED <<cfg, conc, llm, gstate, aux, mcp_tools, tools, runs, returned, console, line>>

\* REPL.init when get_tools raises: main never starts the UI
BootFail ==
    /\ pc = "boot"
    /\ fetches' = fetches + 1
    /\ pc' = "initfailed"
    /\ exc' = "FetchError"
    /\ UNCHANGED <<cfg, conc, llm, gstate, aux, mcp_tools, tools, runs, returned, console, line>>

\* lines handed to on_input_submitted
Lines == Tasks \cup {"/exit", "/EXIT", " /Quit ", "/help", "/HELP", "/help "}

\* the command test comparing the line as typed
_handle_commands_AsTyped(l) ==
    IF l \in {"/exit", "/quit"} THEN "exit"
    ELSE IF l = "/help" THEN "help"
    ELSE "none"

\* repl.py lines 90-106: which branch a line takes; "none" is `return False`
_handle_commands(l) ==
    IF Lower(Strip(l)) \in {"/exit", "/quit"} THEN "exit"
    ELSE IF Lower(Strip(l)) = "/help" THEN "help"
    ELSE "none"

\* repl.py lines 95-104
HelpMessages ==
    << Shown("Available commands:", <<>>),
       Shown("  /exit, /quit: Exit the session", <<>>),
       Shown("  /help: Show this help message", <<>>),
       Shown("         to configure the LLM set the environment variable for LLM", <<>>),
       Shown("         for Anthropic use ANTHROPIC_API_KEY", <<>>),
       Shown("         for Ollama use OLLAMA_BASE_URL if you want non default usage", <<>>),
       Shown("         --root must be supplied to initialize the working directory", <<>>),
       Shown("         --config must be supplied to initialize the configuration", <<>>),
       Shown("         default config is ~/.{prog}/config.json", <<>>) >>

\* REPL.on_input_submitted with "/exit" or "/quit": "Goodbye!" and sys.exit(0)
Exit ==
    /\ pc = "idle"
    /\ \E l \in Lines : _handle_commands(l) = "exit" /\ line' = l
    /\ console' = << Shown("Goodbye!", <<>>) >>
    /\ pc' = "exited"
    /\ UNCHANGED <<cfg, conc, llm, gstate, aux, mcp_tools, tools, runs, fetches, exc, returned>>

\* REPL.on_input_submitted with "/help": the help text, and nothing else
Help ==
    /\ pc = "idle"
    /\ \E l \in Lines : _handle_commands(l) = "help" /\ line' = l
    /\ console' = HelpMessages
    /\ UNCHANGED <<cfg, conc, llm, gstate, aux, pc, mcp_tools, tools, runs, fetches, exc, returned>>

\* REPL.on_input_submitted with a task line: asyncio.run(self.graph.run(line))
Submit ==
    /\ pc = "idle"
    /\ runs < MaxRuns
    /\ \E l \in Lines : _handle_commands(l) = "none" /\ line' = l
    /\ runs' = runs + 1
    /\ console' = << Shown("> ", << W(line') >>), Shown("Processing...", <<>>) >>
    /\ returned' = <<>>
    /\ pc' = "load"
    /\ UNCHANGED <<cfg, conc, llm, gstate, aux, mcp_tools, tools, fetches, exc>>

\* AgentGraph.run: init() again, then the fresh state
LoadOk ==
    /\ pc = "load"
    /\ \E c \in Catalogs :
          /\ mcp_tools' = c
          /\ tools' = BuildRegistry(c)
    /\ fetches' = fetches + 1
    /\ Apply(FreshState(line))
    /\ hops' = 0 /\ toolsEntered' = 0 /\ writes' = 0 /\ llmCalls' = 0
    /\ forced' = FALSE /\ outcome' = "" /\ uncoop' = TRUE /\ allEmpty' = TRUE
    /\ invoked' = NotInvoked
    /\ pc' = "plan"
    /\ UNCHANGED <<cfg, conc, llm, runs, exc, returned, console, line>>

\* AgentGraph.run when get_tools raises inside its init()
LoadFail ==
    /\ pc = "load"
    /\ fetches' = fetches + 1
    /\ pc' = "raised"
    /\ exc' = "FetchError"
    /\ UNCHANGED <<cfg, conc, llm, gstate, aux, mcp_tools, tools, runs, returned, console, line>>

PlanStep ==
    /\ pc = "plan"
    /\ \E js \in Answers(PlanPrompt(S)) :
          /\ ~PlanRaises(js)
          /\ Apply(_node_plan(S, js))
          /\ allEmpty' = (allEmpty /\ js = <<>>)
    /\ hops' = hops + 1
    /\ llmCalls' = llmCalls + 1
    /\ pc' = "route"
    /\ UNCHANGED <<cfg, conc, llm, mcp_tools, tools, runs, fetches, exc, returned, console, line,
                   toolsEntered, writes, forced, outcome, uncoop, invoked>>

\* the plan node raising out of run()
PlanRaise ==
    /\ pc = "plan"
    /\ \E js \in Answers(PlanPrompt(S)) : PlanRaises(js)
    /\ hops' = hops + 1
    /\ llmCalls' = llmCalls + 1
    /\ pc' = "raised"
    /\ exc' = "TypeError"
    /\ allEmpty' = FALSE
    /\ UNCHANGED <<cfg, conc, llm, gstate, mcp_tools, tools, runs, fetches, returned, console, line,
                   toolsEntered, writes, forced, outcome, uncoop, invoked>>

\* the pass-through route node and the conditional edge
RouteStep ==
    /\ pc = "route"
    /\ \E txt \in Answers(RoutePrompt(S)) :
          /\ Apply(_node_route(S))
          /\ pc' = router(S, txt)
          /\ uncoop' = (uncoop /\ (RouterConsults(S) => router(S, txt) = "tools"))
          /\ allEmpty' = (allEmpty /\ (RouterConsults(S) => txt = <<>>))
    /\ hops' = hops + 1
    /\ llmCalls' = llmCalls + (IF RouterConsults(S) THEN 1 ELSE 0)
    /\ forced' = (forced \/ RouteBranch(S) = "limit")
    /\ UNCHANGED <<cfg, conc, llm, mcp_tools, tools, runs, fetches, exc, returned, console, line,
                   toolsEntered, writes, outcome, invoked>>

ToolsStep ==
    /\ pc = "tools"
    /\ \E js \in Answers(ToolsPrompt(S)) :
         LET name == ToolName(ParseSpec(js))
             bs == IF ToolsConsults(S) /\ Resolves(name, tools)
                   THEN Behaviours(tools[name], ToolArgs(ParseSpec(js)))
                   ELSE { NoInvocation }
         IN \E b \in bs :
               /\ Apply(_node_tools(S, tools, js, b))
               /\ outcome' = OutcomeOf(S, tools, js, b)
               /\ uncoop' = (uncoop /\ js = DosleepCall)
               /\ allEmpty' = (allEmpty /\ (ToolsConsults(S) => js = <<>>))
               /\ invoked' = InvokedBy(S, tools, js, b)
    /\ hops' = hops + 1
    /\ toolsEntered' = toolsEntered + 1
    /\ llmCalls' = llmCalls + (IF ToolsConsults(S) THEN 1 ELSE 0)
    /\ pc' = "route"
    /\ UNCHANGED <<cfg, conc, llm, mcp_tools, tools, runs, fetches, exc, returned, console, line,
                   writes, forced>>

WriteStep ==
    /\ pc = "write"
    /\ \E draft \in Answers(WritePrompt(S)) :
          /\ Apply(_node_write(S, draft))
          /\ allEmpty' = (allEmpty /\ draft = <<>>)
    /\ hops' = hops + 1
    /\ writes' = writes + 1
    /\ llmCalls' = llmCalls + 1
    /\ pc' = "end"
    /\ UNCHANGED <<cfg, conc, llm, mcp_tools, tools, runs, fetches, exc, returned, console, line,
                   toolsEntered, forced, outcome, uncoop, invoked>>

\* run() returns out.get('result', '') and its state is dropped; the driver
\* shows the outcome
Return ==
    /\ pc = "end"
    /\ returned' = result
    /\ console' = Append(console, OutcomeMessage(result))
    /\ Apply(FreshState(""))
    /\ hops' = 0 /\ toolsEntered' = 0 /\ writes' = 0 /\ llmCalls' = 0
    /\ forced' = FALSE /\ outcome' = "" /\ uncoop' = TRUE /\ allEmpty' = TRUE
    /\ invoked' = NotInvoked
    /\ pc' = "idle"
    /\ UNCHANGED <<cfg, conc, llm, mcp_tools, tools, runs, fetches, exc, line>>

Next ==
    \/ BootOk \/ BootFail \/ Exit \/ Help \/ Submit \/ LoadOk \/ LoadFail
    \/ PlanStep \/ PlanRaise \/ RouteStep \/ ToolsStep \/ WriteStep \/ Return

Spec == Init /\ [][Next]_vars

---------------------------------------------------------------------------
(* _normalize_tools and _node_tools called directly, with any tools *)

\* lists a caller of _normalize_tools can pass: LangChain tools, objects with
\* invoke only, plain functions, callables carrying a name, and objects that
\* are none of these
HandleLists == {
    <<>>,
    << Fn("fn", "fn"), Handle("legacy", "sync", "mcp"), Handle("", "other", "none") >>,
    << Handle("search", "async", "mcp"), Handle("search", "sync", "mcp") >>,
    << Handle("", "other", "none"), Handle("", "other", "none") >>,
    << Handle("fn", "callable", "fn"), Fn("fn", "fn") >>,
    << dosleep, Handle("", "sync", "mcp"), dosleep >>,
    << Handle("lookup", "async", "structured"), Handle("report", "sync", "structured") >>,
    << Handle("none", "async", "mcp"), Handle("none", "sync", "mcp") >> }

ToolCall(name) == << LB, M("tool", "str", name), M("args", "obj", "{seconds:1}"), RB >>

\* answers to the tool prompt naming the tools of HandleLists
DirectToolTexts ==
    { ToolCall(n) : n \in {"fn", "legacy", "search", "dosleep", "tool_0", "tool_1", "tool_2",
                           "lookup", "report", "none"} }
    \cup { << W("I cannot") >>,
           << LB, M("args", "obj", "{seconds:1}"), RB >>,                          \* no "tool"
           << LB, M("tool", "str", ""), M("args", "obj", "{seconds:1}"), RB >> }   \* "tool": ""

\* the state a tools node is handed once the plan node has run
AfterPlan == Merge(FreshState("deploy"), _node_plan(FreshState("deploy"), <<>>))

DirectInit ==
    /\ pc = "normalize"
    /\ task = AfterPlan.task /\ plan = AfterPlan.plan /\ scratch = AfterPlan.scratch
    /\ evidence = AfterPlan.evidence /\ result = AfterPlan.result
    /\ step = AfterPlan.step /\ done = AfterPlan.done
    /\ mcp_tools \in HandleLists /\ tools = NoRegistry
    /\ runs = 0 /\ fetches = 0 /\ exc = "" /\ returned = <<>>
    /\ console = <<>>
    /\ line = ""
    /\ hops = 0 /\ toolsEntered = 0 /\ writes = 0 /\ llmCalls = 0
    /\ forced = FALSE /\ outcome = "" /\ uncoop = TRUE /\ allEmpty = TRUE
    /\ invoked = NotInvoked
    /\ conc = NoCalls
    /\ llm = Configured
    /\ cfg = SessionConfig

\* tools = _normalize_tools(the list)
NormalizeDirect ==
    /\ pc = "normalize"
    /\ tools' = _normalize_tools(mcp_tools)
    /\ pc' = "tools"
    /\ UNCHANGED <<cfg, conc, llm, gstate, aux, mcp_tools, runs, fetches, exc, returned, console,
                   line>>

\* await self._node_tools(state, tools)
ToolsDirect ==
    /\ pc = "tools"
    /\ toolsEntered < MaxDirectCalls
    /\ \E js \in DirectToolTexts :
         LET name == ToolName(ParseSpec(js))
             bs == IF ToolsConsults(S) /\ Resolves(name, tools)
                   THEN Behaviours(tools[name], ToolArgs(ParseSpec(js)))
                   ELSE { NoInvocation }
         IN \E b \in bs :
               /\ Apply(_node_tools(S, tools, js, b))
               /\ outcome' = OutcomeOf(S, tools, js, b)
               /\ invoked' = InvokedBy(S, tools, js, b)
    /\ hops' = hops + 1
    /\ toolsEntered' = toolsEntered + 1
    /\ llmCalls' = llmCalls + (IF ToolsConsults(S) THEN 1 ELSE 0)
    /\ allEmpty' = FALSE
    /\ UNCHANGED <<cfg, conc, llm, pc, mcp_tools, tools, runs, fetches, exc, returned, console,
                   line, writes, forced, uncoop>>

DirectNext == NormalizeDirect \/ ToolsDirect

ToolsNodeSpec == DirectInit /\ [][DirectNext]_vars

---------------------------------------------------------------------------
(* Two run() calls on one engine, overlapping *)

Calls == {1, 2}

CallTask(c) == IF c = 1 THEN "what is 2+2" ELSE "deploy"

\* a call of run(): where it is, the locals of run() and of init() (the state
\* handed to ainvoke, the list its own fetch returned, the registry captured
\* by the graph's closures), the answer the tools node is awaiting a tool
\* for, what it returned, and the answers it has been given so far
NotStarted(c) ==
    [pc |-> "idle", task |-> CallTask(c), s |-> FreshState(""), fetched |-> <<>>,
     reg |-> NoRegistry, pending |-> <<>>, returned |-> <<>>, seen |-> <<>>]

Input(node, txt, b) == [node |-> node, txt |-> txt, b |-> b]

\* catalogs a server can return here, one of them with a remote tool that
\* calls itself dosleep
OverlapCatalogs == Catalogs \cup { << Handle("dosleep", "async", "mcp") >> }

OverlapRouteTexts == { << W("write") >>, << W("tools") >> }

OverlapToolTexts == {
    DosleepCall,
    << W("calling"), LB, M("tool", "str", "search"), M("args", "obj", "{q:x}"), RB >>,
    << W("I"), W("cannot") >> }

\* a node's patch written into the state of every call in flight, as a
\* state kept on the engine would be
MergeInto_EngineState(c, patch) ==
    [d \in Calls |-> [conc[d] EXCEPT !.s = Merge(conc[d].s, patch)]]

\* a node's patch merged into the state of the ainvoke it belongs to
MergeInto(c, patch) == [conc EXCEPT ![c].s = Merge(conc[c].s, patch)]

\* the call moving on after a node: its patch, its next position, the answer noted
Advance(c, patch, next, input) ==
    [MergeInto(c, patch) EXCEPT ![c].pc = next,
                                ![c].seen = Append(conc[c].seen, input),
                                ![c].pending = <<>>]

OverlapInit ==
    /\ pc = "ready"
    /\ task = "" /\ plan = <<>> /\ scratch = <<>> /\ evidence = <<>>
    /\ result = <<>> /\ step = 0 /\ done = FALSE
    /\ mcp_tools \in OverlapCatalogs /\ tools = NoRegistry
    /\ runs = 0 /\ fetches = 1 /\ exc = "" /\ returned = <<>>
    /\ console = <<>>
    /\ line = ""
    /\ hops = 0 /\ toolsEntered = 0 /\ writes = 0 /\ llmCalls = 0
    /\ forced = FALSE /\ outcome = "" /\ uncoop = TRUE /\ allEmpty = TRUE
    /\ invoked = NotInvoked
    /\ conc = [c \in Calls |-> NotStarted(c)]
    /\ llm = Configured
    /\ cfg = SessionConfig

\* run(task): init() -> _load_mcp_tools() suspends in get_tools()
OverlapCall(c) ==
    /\ conc[c].pc = "idle"
    /\ conc' = [conc EXCEPT ![c].pc = "fetching"]
    /\ UNCHANGED <<cfg, llm, pc, gstate, aux, mcp_tools, tools, runs, fetches, exc, returned,
                   console, line>>

\* get_tools() returns: self.mcp_tools = tools, then init() copies it into its
\* registry with no suspension in between, and run() builds its state
OverlapFetched(c) ==
    /\ conc[c].pc = "fetching"
    /\ \E cat \in OverlapCatalogs :
          /\ mcp_tools' = cat
          /\ conc' = [conc EXCEPT ![c].pc = "plan",
                                  ![c].fetched = cat,
                                  ![c].reg = BuildRegistry(mcp_tools'),
                                  ![c].s = FreshState(conc[c].task)]
    /\ fetches' = fetches + 1
    /\ UNCHANGED <<cfg, llm, pc, gstate, aux, tools, runs, exc, returned, console, line>>

\* get_tools() raises out of this run()
OverlapFetchFail(c) ==
    /\ conc[c].pc = "fetching"
    /\ conc' = [conc EXCEPT ![c].pc = "raised"]
    /\ fetches' = fetches + 1
    /\ UNCHANGED <<cfg, llm, pc, gstate, aux, mcp_tools, tools, runs, exc, returned, console,
                   line>>

OverlapPlan(c) ==
    /\ conc[c].pc = "plan"
    /\ conc' = Advance(c, _node_plan(conc[c].s, <<>>), "route",
                       Input("plan", <<>>, NoInvocation))
    /\ UNCHANGED <<cfg, llm, pc, gstate, aux, mcp_tools, tools, runs, fetches, exc, returned,
                   console, line>>

OverlapRoute(c) ==
    /\ conc[c].pc = "route"
    /\ \E txt \in OverlapRouteTexts :
          /\ router(conc[c].s, txt) = "tools" => conc[c].s.step < MaxOverlapSteps
          /\ conc' = Advance(c, _node_route(conc[c].s), router(conc[c].s, txt),
                             Input("route", txt, NoInvocation))
    /\ UNCHANGED <<cfg, llm, pc, gstate, aux, mcp_tools, tools, runs, fetches, exc, returned,
                   console, line>>

\* the tools node returning without a tool call
OverlapToolsDecline(c) ==
    /\ conc[c].pc = "tools"
    /\ \E js \in OverlapToolTexts :
          /\ ~(ToolsConsults(conc[c].s) /\ Resolves(ToolName(ParseSpec(js)), conc[c].reg))
          /\ conc' = Advance(c, _node_tools(conc[c].s, conc[c].reg, js, NoInvocation),
                             "route", Input("tools", js, NoInvocation))
    /\ UNCHANGED <<cfg, llm, pc, gstate, aux, mcp_tools, tools, runs, fetches, exc, returned,
                   console, line>>

\* the tools node suspending in await tool_obj.ainvoke(args)
OverlapToolsAwait(c) ==
    /\ conc[c].pc = "tools"
    /\ \E js \in OverlapToolTexts :
          /\ ToolsConsults(conc[c].s)
          /\ Resolves(ToolName(ParseSpec(js)), conc[c].reg)
          /\ conc' = [conc EXCEPT ![c].pc = "awaiting", ![c].pending = js]
    /\ UNCHANGED <<cfg, llm, pc, gstate, aux, mcp_tools, tools, runs, fetches, exc, returned,
                   console, line>>

\* the tool call returning or raising: the node builds its patch
OverlapToolsResume(c) ==
    /\ conc[c].pc = "awaiting"
    /\ LET js == conc[c].pending
           spec == ParseSpec(js)
       IN \E b \in Behaviours(conc[c].reg[ToolName(spec)], ToolArgs(spec)) :
             conc' = Advance(c, _node_tools(conc[c].s, conc[c].reg, js, b),
                             "route", Input("tools", js, b))
    /\ UNCHANGED <<cfg, llm, pc, gstate, aux, mcp_tools, tools, runs, fetches, exc, returned,
                   console, line>>

OverlapWrite(c) ==
    /\ conc[c].pc = "write"
    /\ \E draft \in WriteTexts :
          conc' = Advance(c, _node_write(conc[c].s, draft), "end",
                          Input("write", draft, NoInvocation))
    /\ UNCHANGED <<cfg, llm, pc, gstate, aux, mcp_tools, tools, runs, fetches, exc, returned,
                   console, line>>

\* return out.get('result', '')
OverlapReturn(c) ==
    /\ conc[c].pc = "end"
    /\ conc' = [conc EXCEPT ![c].pc = "returned", ![c].returned = conc[c].s.result]
    /\ UNCHANGED <<cfg, llm, pc, gstate, aux, mcp_tools, tools, runs, fetches, exc, returned,
                   console, line>>

OverlapNext ==
    \E c \in Calls :
        \/ OverlapCall(c) \/ OverlapFetched(c) \/ OverlapFetchFail(c)
        \/ OverlapPlan(c) \/ OverlapRoute(c)
        \/ OverlapToolsDecline(c) \/ OverlapToolsAwait(c) \/ OverlapToolsResume(c)
        \/ OverlapWrite(c) \/ OverlapReturn(c)

OverlapSpec == OverlapInit /\ [][OverlapNext]_vars

---------------------------------------------------------------------------
(* Properties *)

InRun == pc \in {"plan", "route", "tools", "write"}
Last(sq) == sq[Len(sq)]
IsPrefix(a, b) == Len(a) <= Len(b) /\ SubSeq(b, 1, Len(a)) = a
HasTag(sc, tag) == \E i \in 1..Len(sc) : sc[i].tag = tag

\* C1: every run whose graph has started stops at End, never by a node raising,
\* after at most 10 entries of the tools node.
C1_RunReachesEnd ==
    /\ toolsEntered <= ToolsStepLimit
    /\ ~(pc = "raised" /\ exc = "TypeError")

\* C2: within a run step never decreases, changes only in the tools node, never
\* exceeds 10, and is 0 when a run starts.
C2_StepMonotone ==
    [][ /\ (InRun => step' >= step)
        /\ (InRun /\ step' # step => pc = "tools")
        /\ (pc = "load" /\ pc' = "plan" => step' = 0)
        /\ step' <= ToolsStepLimit ]_vars

C2_Witness == runs = 2 /\ pc = "route" /\ step = RouterStepLimit

\* C3: a route decision taken with step >= 8 is followed by the write node.
C3_CeilingRoutesToWrite ==
    [][ (pc = "route" /\ step >= RouterStepLimit) => pc' = "write" ]_vars

\* C4 as stated: a model that always answers tools and always calls dosleep
\* reaches an 11th tools entry, where done is set with a MAX_STEPS entry.
C4_EleventhEntry ==
    (pc = "end" /\ uncoop) =>
        /\ toolsEntered = ToolsStepLimit + 1
        /\ done
        /\ HasTag(scratch, "MAX_STEPS")

\* C4 as amended: such a run enters the tools node exactly 8 times, the 9th
\* route decision forces write without asking the model, done stays false, no
\* MAX_STEPS entry is recorded and the run ends with the write node's text.
C4_EightEntriesThenWrite ==
    /\ (InRun /\ uncoop => toolsEntered <= RouterStepLimit /\ ~done)
    /\ (pc = "end" /\ uncoop =>
          /\ toolsEntered = RouterStepLimit
          /\ step = RouterStepLimit
          /\ forced
          /\ ~done
          /\ ~HasTag(scratch, "MAX_STEPS")
          /\ writes = 1
          /\ hops = 2 * RouterStepLimit + 3
          /\ Len(scratch) = 2 * RouterStepLimit + 2
          /\ Last(scratch) = DraftEntry(result))

C4_Witness == pc = "end" /\ uncoop /\ toolsEntered = RouterStepLimit

\* C5: a resolved tool that raises leaves a TOOL-ERROR entry naming it, done and
\* result unchanged, the step counted, and control back at route.
C5_ToolErrorContained ==
    [][ (pc = "tools" /\ outcome' = "raised") =>
          /\ pc' = "route"
          /\ exc' = ""
          /\ done' = done
          /\ result' = result
          /\ step' = step + 1
          /\ Len(scratch') = Len(scratch) + 2
          /\ IsPrefix(scratch, scratch')
          /\ Last(scratch').tag = "TOOL-ERROR"
          /\ Last(scratch').tool \in DOMAIN tools
          /\ Last(scratch').tool = scratch'[Len(scratch) + 1].tool ]_vars

C5_Witness == pc = "route" /\ outcome = "raised" /\ Last(scratch).tag = "TOOL-ERROR"

\* C6: whatever the model answers, the plan node completes, leaves a valid JSON
\* text in plan, appends one PLAN entry and hands over to route.
C6_PlanNeverAborts ==
    [][ pc = "plan" =>
          /\ pc' = "route"
          /\ JsonValid(plan')
          /\ scratch' = Append(scratch, PlanEntry(plan')) ]_vars

\* C7: after a successful init() no run raises.
C7_RunNeverRaises == pc # "raised"

\* C8: after the tools node chose none or an unregistered name, done is set, the
\* tools node is not entered again and the run goes through write before End.
C8_NoneMovesToWrite ==
    /\ (outcome = "none" => done /\ pc # "tools")
    /\ (pc = "end" /\ outcome = "none" => writes = 1)

C10_ResultOnce ==
    [][ /\ (writes' = 0 => result' = <<>>)
        /\ writes' <= 1
        /\ (InRun /\ result' # result => pc = "write")
        /\ (result' # <<>> =>
              /\ pc' = "end"
              /\ \A txt \in RouteTexts :
                    router([S EXCEPT !.result = result'], txt) = "end") ]_vars

C10_Witness == pc = "end" /\ writes = 1 /\ result # <<>>


\* C11: within one run the scratch only grows by appending: across every
\* execution of a node, the tools node with any kind of registered tool and any
\* tool result included, the scratch before is a prefix of the scratch after.
C11_ScratchAppendOnly ==
    [][ (pc \in {"plan", "tools", "write"}) => IsPrefix(scratch, scratch') ]_vars

\* answers to the route prompt in which no word holds "tool" in any letter case
NoToolAnswers == { <<>>, << W("write") >>, << W("garbled") >> }

\* C12: when the first route answer does not contain "tool", the run is plan,
\* route, write, end: the router answers write, the tools node is never
\* entered, step stays 0, the scratch ends as the PLAN entry followed by the
\* DRAFT entry, and run() returns the text the write node produced.
C12_WriteFirst ==
    [][ /\ ((pc = "route" /\ hops = 1) =>
              \A txt \in NoToolAnswers :
                  txt \in RouteTexts /\ router(S, txt) = "write")
        /\ ((pc = "route" /\ hops = 1 /\ pc' = "write") =>
              step' = 0 /\ toolsEntered' = 0 /\ scratch' = << PlanEntry(plan) >>)
        /\ ((pc = "write" /\ toolsEntered = 0) =>
              /\ pc' = "end" /\ step' = 0 /\ toolsEntered' = 0 /\ hops' = 3
              /\ result' \in WriteTexts
              /\ scratch' = << PlanEntry(plan'), DraftEntry(result') >>)
        /\ ((pc = "end" /\ toolsEntered = 0) =>
              returned' = result /\ pc' = "idle") ]_vars

C12_Witness ==
    pc = "end" /\ toolsEntered = 0 /\ hops = 3 /\ result = << W("4"), W("[1]") >>

C14_FetchOnce == pc # "boot" => fetches = 1

ToolAnswers == { << W("tools") >>, << W("TOOLS") >>, << W("use"), W("the"), W("Toolbox") >> }

\* the decision the claim gives for (done, result, step, model text)
RouteDecision(d, r, n, txt) ==
    IF d \/ r # <<>> THEN "end"
    ELSE IF n >= 8 THEN "write"
    ELSE IF txt \in ToolAnswers THEN "tools"
    ELSE "write"

\* C16: the route decision is a function of (done, result, step, model text)
\* taken in this order: end if done or result is non-empty; else write if
\* step >= 8, without a model completion; else exactly one completion, and
\* tools iff the lowercased answer contains "tool", write for every other
\* answer, empty or garbled included.
C16_RouteDecision ==
    [][ (pc = "route") =>
          /\ RouteTexts = ToolAnswers \cup NoToolAnswers
          /\ \A txt \in RouteTexts : \A r \in WriteTexts :
                router([S EXCEPT !.result = r], txt) = RouteDecision(done, r, step, txt)
          /\ \E txt \in RouteTexts : pc' = RouteDecision(done, result, step, txt)
          /\ llmCalls' = llmCalls + (IF done \/ result # <<>> \/ step >= 8 THEN 0 ELSE 1)
          /\ UNCHANGED gstate ]_vars

C16_Witness == pc = "tools" /\ hops = 2 /\ llmCalls = 2 /\ step = 0

\* the name the claim gives entry i of a list: the name attribute, else tool_<index>
NameOrPosition(list, i) ==
    IF list[i].name # "" THEN list[i].name ELSE << "tool_0", "tool_1", "tool_2" >>[i]

\* the name with the function name between the two
NameOrFunctionOrPosition(list, i) ==
    IF list[i].name # "" THEN list[i].name
    ELSE IF list[i].fname # "" THEN list[i].fname
    ELSE << "tool_0", "tool_1", "tool_2" >>[i]

C18_EmptyAnswers ==
    [][ /\ ((InRun /\ allEmpty') =>
              /\ exc' = "" /\ toolsEntered' = 0 /\ step' = 0
              /\ (pc = "plan" =>
                    /\ pc' = "route"
                    /\ plan' = << LB, M("subtasks", "list", "[write,tools]"),
                                  M("success_criteria", "list", "[clear answer]"), RB >>)
              /\ (pc = "route" => pc' = "write")
              /\ (pc = "write" => pc' = "end" /\ result' = <<>>))
        /\ (pc = "plan" => <<>> \in PlanTexts /\ ~PlanRaises(<<>>))
        /\ ((pc = "end" /\ allEmpty) => pc' = "idle" /\ returned' = <<>>) ]_vars

C18_Witness == pc = "end" /\ allEmpty /\ hops = 3 /\ llmCalls = 3

\* C19: for a submitted line that is not a command, once run() has returned
\* the session driver shows exactly one outcome message: "Result: <text>"
\* when the returned text is non-empty, "No result returned." when it is empty.
C19_OneOutcomeMessage ==
    [][ /\ (pc = "end" =>
              /\ pc' = "idle"
              /\ Len(console') = Len(console) + 1
              /\ SubSeq(console', 1, Len(console)) = console
              /\ Last(console') =
                    IF returned' # <<>>
                    THEN [msg |-> "Result: ", text |-> returned']
                    ELSE [msg |-> "No result returned.", text |-> <<>>])
        /\ \A i \in 1..Len(console') :
              console'[i].msg \in {"Result: ", "No result returned."} =>
                  i = Len(console') /\ pc' = "idle" ]_vars

C19_Witness ==
    /\ pc = "idle" /\ runs = 1 /\ returned = <<>>
    /\ Len(console) = 3 /\ console[3].msg = "No result returned."

\* one run() on its own: the state after the given answers, node by node
RECURSIVE Replay(_, _, _)
Replay(st, reg, inputs) ==
    IF inputs = <<>> THEN st
    ELSE LET i == Head(inputs)
             patch == CASE i.node = "plan" -> _node_plan(st, i.txt)
                        [] i.node = "tools" -> _node_tools(st, reg, i.txt, i.b)
                        [] i.node = "write" -> _node_write(st, i.txt)
                        [] OTHER -> st
         IN Replay(Merge(st, patch), reg, Tail(inputs))

\* C20: two run() calls on one engine, interleaved at every suspension point
\* (catalog fetch, tool call) and between nodes, never touch each other's
\* state: each call's registry is built from its own fetch, its scratch,
\* step, done and result are at every moment what a run on its own makes of
\* its own task, model answers and tool results, and it returns its own result.
C20_Isolation ==
    \A c \in Calls :
        conc[c].pc \notin {"idle", "fetching", "raised"} =>
            LET alone == Replay(FreshState(CallTask(c)), BuildRegistry(conc[c].fetched),
                                conc[c].seen)
            IN /\ conc[c].reg = BuildRegistry(conc[c].fetched)
               /\ conc[c].s = alone
               /\ (conc[c].pc = "returned" => conc[c].returned = alone.result)

C20_Witness ==
    /\ conc[1].pc = "awaiting" /\ conc[2].pc = "awaiting"
    /\ conc[1].fetched # conc[2].fetched
    /\ conc[1].pending # conc[2].pending

\* C21: the LLM object wraps the configured provider: constructed with
\* provider "ollama" or "local" its backing chat client is the Ollama client,
\* with any other provider the Anthropic client, and every later call_llm is
\* served by that client.
C21_BackingClient ==
    (pc \in {"built", "serving"}) =>
        /\ llm.client = IF llm.provider \in {"ollama", "local"}
                        THEN "ChatOllama" ELSE "ChatAnthropic"
        /\ (llmCalls > 0 => outcome[1] = llm.client)

\* C22: the node graph has exactly these transitions: plan is the entry node,
\* entered only when a run starts, and always goes to route; tools always goes
\* back to route; write always goes to end and runs at most once; route goes
\* only to tools, write or end; end is reached only from route or write.
C22_GraphTransitions ==
    [][ /\ (pc' = "plan" => pc = "load" /\ hops' = 0)
        /\ (pc = "plan" => pc' = "route")
        /\ (pc = "tools" => pc' = "route")
        /\ (pc = "write" => pc' = "end" /\ writes' = 1)
        /\ (pc = "route" => pc' \in {"tools", "write", "end"})
        /\ (pc' = "end" => pc \in {"route", "write"})
        /\ (pc = "end" => pc' = "idle") ]_vars

\* C23: a visit of the route node, with the decision taken after it, leaves
\* task, plan, scratch, evidence, result, step and done as they were,
\* whichever of tools, write or end is chosen.
C23_RouteLeavesState ==
    [][ (pc = "route") =>
          /\ task' = task /\ plan' = plan /\ scratch' = scratch
          /\ evidence' = evidence /\ result' = result /\ step' = step
          /\ done' = done ]_vars

C23_Witness == pc = "write" /\ hops = 4 /\ step = 1 /\ Len(scratch) = 3

\* the tool object the last tools-node entry resolved and dispatched on
Dispatched == tools[Last(scratch).tool]

\* C24: each node visit issues at most one model completion and each entry of
\* the tools node runs the chosen tool at most once, whatever kind of handle
\* it is and however the tool ends, a callable raising TypeError from inside
\* its body included.
C24_AtMostOnce ==
    /\ llmCalls <= hops
    /\ invoked.bodies <= 1

\* C25: the dispatch is decided by what the handle can do: a handle with
\* ainvoke is awaited with the argument map and its invoke is not used; else
\* a handle with invoke is called with the argument map; else a callable is
\* called as (args, state) and, when that raises TypeError, as (**args); a
\* handle that is none of these gets a TOOL-ERROR entry and is not invoked.
C25_DispatchOrder ==
    (pc = "tools" /\ toolsEntered > 0 /\ outcome \in {"ok", "raised", "invalid"}) =>
        /\ (Dispatched.kind = "async" => invoked.via = << "ainvoke(args)" >>)
        /\ (Dispatched.kind = "sync" => invoked.via = << "invoke(args)" >>)
        /\ (Dispatched.kind = "callable" =>
                /\ invoked.via[1] = "(args, state)"
                /\ (Len(invoked.via) = 2 => invoked.via[2] = "(**args)")
                /\ (Len(invoked.via) = 2 <=> invoked.calls = 2)
                /\ Len(invoked.via) \in {1, 2})
        /\ (Dispatched.kind = "other" =>
                /\ invoked = NotInvoked
                /\ outcome = "invalid"
                /\ Last(scratch).tag = "TOOL-ERROR"
                /\ Last(scratch).res = "invalid tool type")

C25_Witness ==
    /\ pc = "tools" /\ toolsEntered = 2 /\ outcome = "ok"
    /\ Dispatched.kind = "async" /\ Dispatched.name = "lookup"
    /\ invoked.via = << "ainvoke(args)" >>

\* C26: a resolved tool whose invocation succeeds leaves a TOOL-CALL entry as
\* the last scratch entry, and when its result is a dict carrying state
\* fields those fields are in the state afterwards, for async, sync and
\* callable tools alike.
C26_ResultsMerged ==
    (pc = "tools" /\ toolsEntered > 0 /\ outcome = "ok") =>
        /\ Last(scratch).tag = "TOOL-CALL"
        /\ (invoked.isdict =>
               \A k \in DOMAIN invoked.patch \ {"scratch"} : S[k] = invoked.patch[k])

\* the prompt the node at pc builds from the current state
PromptHere ==
    CASE pc = "plan" -> PlanPrompt(S)
      [] pc = "route" -> RoutePrompt(S)
      [] pc = "tools" -> ToolsPrompt(S)
      [] OTHER -> WritePrompt(S)

\* C27: the prompts of the route decision, the tools node and the write node
\* carry the last five entries of scratch at most, in the order scratch has
\* them, however long scratch is; the plan prompt carries no scratch entry.
C27_PromptWindow ==
    LET notes == PromptHere.notes
        k == Len(scratch) - Len(notes)
    IN /\ (pc = "plan" => notes = <<>>)
       /\ (\/ pc = "route" /\ RouterConsults(S)
           \/ pc = "tools" /\ ToolsConsults(S)
           \/ pc = "write") =>
              /\ Len(notes) <= 5
              /\ k >= 0
              /\ (Len(scratch) >= 5 => Len(notes) = 5)
              /\ \A i \in 1..Len(notes) : notes[i] = scratch[k + i]

C27_Witness ==
    /\ pc = "tools" /\ Len(scratch) = 11
    /\ Len(ToolsPrompt(S).notes) = 5
    /\ ToolsPrompt(S).notes[1] = scratch[7]

\* lines that are commands: "/exit", "/quit" and "/help" in any letter case,
\* with or without spaces around them
ExitLines == {"/exit", "/EXIT", " /Quit "}
HelpLines == {"/help", "/HELP", "/help "}

\* C28: the session driver calls init() once, before any line is processed;
\* a line that is not a command starts exactly one run(); "/help" shows the
\* help text and starts no run; "/exit" and "/quit", in any letter case and
\* with spaces around them, end the session without starting a run.
C28_OneRunPerLine ==
    [][ /\ (pc = "boot" =>
              /\ runs = 0 /\ line = "" /\ fetches = 0
              /\ fetches' = 1 /\ runs' = 0 /\ line' = ""
              /\ pc' \in {"idle", "initfailed"})
        /\ (pc # "boot" => pc' # "boot")
        /\ (pc = "idle" =>
              /\ fetches' = fetches
              /\ (line' \in ExitLines =>
                    /\ pc' = "exited" /\ runs' = runs
                    /\ console' = << [msg |-> "Goodbye!", text |-> <<>>] >>)
              /\ (line' \in HelpLines =>
                    /\ pc' = "idle" /\ runs' = runs
                    /\ console'[1].msg = "Available commands:"
                    /\ \A i \in 1..Len(console') : console'[i].msg \notin {"> ", "Processing..."})
              /\ (line' \notin ExitLines \cup HelpLines =>
                    /\ pc' = "load" /\ runs' = runs + 1 /\ task' = ""))
        /\ (pc \notin {"idle", "boot"} => runs' = runs /\ line' = line)
        /\ (pc = "load" /\ pc' = "plan" => task' = line /\ line \notin ExitLines \cup HelpLines)
        /\ (pc = "exited" => FALSE) ]_vars

C28_Witness ==
    /\ pc = "exited" /\ line = " /Quit " /\ runs = 1
    /\ console = << [msg |-> "Goodbye!", text |-> <<>>] >>

\* C29: in every state of a run step is at most 8: the router sends no run to
\* the tools node once step >= 8, so the tools node always gets past its
\* step > 10 test and never sets done with a MAX_STEPS entry.
C29_StepAtMostEight ==
    /\ step <= 8
    /\ toolsEntered <= 8
    /\ (pc = "tools" => step < 8 /\ ToolsConsults(S))
    /\ outcome # "max"
    /\ ~HasTag(scratch, "MAX_STEPS")

C29_Witness ==
    /\ pc = "write" /\ forced /\ step = 8 /\ toolsEntered = 8
    /\ outcome \in {"ok", "raised"} /\ ~done

C31_ScratchLength ==
    (pc \in {"route", "end"}) =>
        /\ step = toolsEntered
        /\ Len(scratch) = 1 + 2 * step + writes
        /\ scratch[1].tag = "PLAN"
        /\ \A i \in 1..step :
              /\ scratch[2 * i].tag = "STEP" /\ scratch[2 * i].n = i
              /\ scratch[2 * i + 1].tag \in {"TOOL-CALL", "TOOL-ERROR", "TOOL"}
        /\ (writes = 1 => Last(scratch).tag = "DRAFT")

C31_Witness ==
    /\ pc = "end" /\ writes = 1 /\ step = 3 /\ Len(scratch) = 8
    /\ scratch[7].tag = "TOOL-ERROR"

\* C32: one run issues at most 18 model completions whatever the model
\* answers: one at plan, at most 8 route decisions that ask the model, at
\* most 8 tools entries, at most one at write.
C32_CompletionsBounded ==
    /\ llmCalls <= 18
    /\ llmCalls <= 1 + 2 * 8 + writes
    /\ (InRun => llmCalls <= hops)

C32_Witness == pc = "end" /\ llmCalls = 18 /\ hops = 19 /\ writes = 1

\* C33: a tool registered under the name "none" is never invoked: when the
\* name the tools node reads from the model's answer is "none" (given as
\* such, or the "tool" field missing or empty) the node takes the no-tool
\* path, done set and nothing invoked, even with a "none" in the registry.
C33_NoneNeverInvoked ==
    (pc = "tools" /\ toolsEntered > 0 /\ Last(scratch).tool = "none") =>
        /\ outcome = "none"
        /\ done
        /\ invoked = NotInvoked
        /\ Last(scratch).tag = "TOOL"
        /\ scratch[Len(scratch) - 1].tag = "STEP"

C33_Witness ==
    /\ pc = "tools" /\ toolsEntered = 1 /\ "none" \in DOMAIN tools
    /\ Last(scratch).tool = "none" /\ done /\ invoked = NotInvoked

\* whether call c has a registry of its own
HasRegistry(c) == conc[c].pc \notin {"idle", "fetching", "raised"}

\* the registry the claim gives for a fetched catalog
RegistryOf(reg, fetched) ==
    /\ DOMAIN reg = { fetched[i].name : i \in 1..Len(fetched) } \cup {"dosleep"}
    /\ reg["dosleep"].origin = "local"
    /\ \A i \in 1..Len(fetched) :
          fetched[i].name # "dosleep" => reg[fetched[i].name] = fetched[i]

\* C34: the registry of every init() holds the names of the catalog its own
\* fetch returned plus "dosleep", bound to the local built-in even when the
\* catalog has a remote dosleep; the catalog kept on the engine is a fetched
\* list as it came, without the built-in; this holds for every call however
\* the calls interleave at the fetch; and the registry of a run stays the
\* same from its first node to its return.
C34_RegistryPerInit ==
    [][ /\ \A c \in Calls :
              /\ (HasRegistry(c)' => RegistryOf(conc'[c].reg, conc'[c].fetched))
              /\ (HasRegistry(c) =>
                    /\ conc'[c].reg = conc[c].reg
                    /\ conc'[c].fetched = conc[c].fetched)
              /\ (conc[c].pc = "fetching" /\ HasRegistry(c)' => mcp_tools' = conc'[c].fetched)
        /\ mcp_tools' \in OverlapCatalogs
        /\ \A i \in 1..Len(mcp_tools') : mcp_tools'[i].origin # "local" ]_vars

C34_Witness ==
    /\ conc[1].pc = "tools" /\ conc[2].pc = "awaiting"
    /\ conc[1].fetched = << Handle("dosleep", "async", "mcp") >>
    /\ conc[2].fetched = << Handle("search", "async", "mcp") >>
    /\ conc[1].reg["dosleep"] = dosleep
    /\ mcp_tools = conc[1].fetched

\* whether every tool handed to the engine is a LangChain tool, as the
\* catalog's tools and dosleep are
OnlyInvocable == \A i \in 1..Len(mcp_tools) : mcp_tools[i].kind \in {"async", "sync"}

\* C35: with tools that are invoked through ainvoke or invoke, the tools node
\* never changes task, plan or evidence: evidence stays the empty sequence,
\* so the evidence section of the write prompt is empty, also after a tool
\* has returned a map with an "evidence" key.
C35_EvidenceStaysEmpty ==
    OnlyInvocable =>
        /\ evidence = <<>>
        /\ WritePrompt(S).evidence = <<>>
        /\ task = AfterPlan.task
        /\ plan = AfterPlan.plan
        /\ result = <<>>

C35_Witness ==
    /\ OnlyInvocable /\ pc = "tools" /\ toolsEntered = 2 /\ outcome = "ok"
    /\ invoked.isdict /\ "evidence" \in DOMAIN invoked.patch
    /\ invoked.via = << "invoke(args)" >>
    /\ evidence = <<>>

\* configuration files the claim names as failing to load: missing, not
\* JSON, a stdio server without "command", an http or sse server without "url"
Unloadable(f) ==
    \/ ~f.exists
    \/ f.json = "invalid"
    \/ f.json = "object" /\ f.transport \in {"default", "stdio"} /\ "command" \notin f.keys
    \/ f.json = "object" /\ f.transport \in {"streamable_http", "sse"} /\ "url" \notin f.keys

\* C36: when the configuration cannot be loaded, main logs "Failed to load
\* configuration" and returns 2, and has constructed neither the model nor
\* the engine nor the UI.
C36_ConfigFailureExits ==
    (pc # "main" /\ Unloadable(cfg.file)) =>
        /\ pc = "exit"
        /\ cfg.code = 2
        /\ \E i \in 1..Len(cfg.log) : cfg.log[i] = "Failed to load configuration"
        /\ exc = ""
        /\ llm = NoGateway

=============================================================================
